---- MODULE Spec2Model ----
(***************************************************************************)
(* MirrorFieldPage (src/src/App.jsx): the interactive field map.           *)
(*                                                                         *)
(* JavaScript numbers are modelled as exact rationals [n, d] in lowest     *)
(* terms with d > 0, so every formula of the page (dataToCanvas,           *)
(* canvasToData, the wheel offset update, the hit-test distance, the       *)
(* minimap rectangle) is computed as the code computes it, without         *)
(* rounding.  Math.sqrt is only ever compared (dist < minDist,             *)
(* dist < threshold), so squared distances are compared instead.           *)
(*                                                                         *)
(* An action is a handler together with the render that commits its state  *)
(* updates, so that the next handler reads the state the previous one      *)
(* left; handleWheelBatch is the case of two wheel events, whose updates   *)
(* React renders in a later task, sharing one render.                      *)
(*                                                                         *)
(* useBackendConnection (the hook behind ConnectionStatus) and             *)
(* DetectionHistoryPage are modelled with their requests in flight.        *)
(***************************************************************************)
EXTENDS Integers, Sequences, FiniteSets

VARIABLES
    mounted,            \* MirrorFieldPage is rendered by AppContent.renderPage
    fetchInFlight,      \* the promise of getMirrorFieldData() is not settled yet
    mirrorData,         \* useState([])
    mirrorDataLoading,  \* useState(true)
    mirrorDataError,    \* useState(null)
    fetchLog,           \* the getMirrorFieldData() calls this mount has issued, by outcome
    toasts,             \* ToastProvider: the toasts shown, by type
    zoom,               \* useState(1)
    offset,             \* useState({x: 0, y: 0})
    isDragging,         \* useState(false)
    dragStart,          \* useState({x: 0, y: 0})
    selectedMirror,     \* useState(null): a mirror id or NULL
    hoveredMirror,      \* useState(null): a mirror id or NULL
    selectedZones,      \* useState(['A','B','C','D'])
    canvasSize,         \* useState({width: 800, height: 600})
    colorMode,          \* useState('cleanliness')
    searchResult,       \* useState(null): a mirror id or NULL
    canvasLabels,       \* the scale-bar and zoom labels last painted on the canvas
    minimapMirrorData,  \* the mirrorData the memoised drawMinimap closed over
    pointer,            \* the mouse position over the canvas (canvas pixels)
    pressed,            \* the mouse buttons held down since a mousedown on the canvas
    clickPending,       \* the browser dispatches click right after this mouseup
    grab,               \* history of the current press of the primary button: the
                        \* pointer, offset and zoom at mousedown, and whether a drag
                        \* move or a wheel event followed
    connected,          \* useBackendConnection: useState(false)
    checking,           \* useBackendConnection: useState(true)
    connectionError,    \* useBackendConnection: useState(null), the error state
    checksInFlight,     \* the checkConnection calls awaiting testConnection()
    checkLog,           \* the checkConnection calls in the order started, by outcome
    records,            \* DetectionHistoryPage: useState([])
    loading,            \* DetectionHistoryPage: useState(true)
    historyError,       \* DetectionHistoryPage: useState(null), the error state
    searchTerm,         \* DetectionHistoryPage: useState('')
    requestsInFlight,   \* the loadHistory calls awaiting fetchHistory()
    requestLog          \* the loadHistory calls in the order issued: search and outcome

vars == <<mounted, fetchInFlight, mirrorData, mirrorDataLoading, mirrorDataError,
          fetchLog, toasts, zoom, offset, isDragging, dragStart, selectedMirror,
          hoveredMirror, selectedZones, canvasSize, colorMode, searchResult,
          canvasLabels, minimapMirrorData, pointer, pressed, clickPending,
          grab, connected, checking, connectionError, checksInFlight, checkLog,
          records, loading, historyError, searchTerm, requestsInFlight,
          requestLog>>

connectionVars == <<connected, checking, connectionError, checksInFlight, checkLog>>

historyVars == <<records, loading, historyError, searchTerm, requestsInFlight,
                 requestLog>>

\* The state of the header's connection indicator and of the history page,
\* which the handlers of MirrorFieldPage never touch.
otherPages == <<connectionVars, historyVars>>

lifecycleVars == <<mounted, fetchInFlight, mirrorData, mirrorDataLoading,
                   mirrorDataError, fetchLog, toasts>>

panelVars == <<colorMode, searchResult>>

NULL == "null"

(***************************************************************************)
(* Bounds of the exploration.                                              *)
(***************************************************************************)
\* SpecZoom explores the zoom buttons while zoom's numerator is at most
\* MaxZoomNum and its denominator at most MaxZoomDen (5^10 <= MaxZoomNum and
\* 4^10 <= MaxZoomDen: the button chains from 1 meet both limits of zoom).
MaxZoomNum == 10000000
MaxZoomDen == 2000000
\* Pointer and wheel events are explored while zoom's numerator and
\* denominator are at most MaxPointerTerm, and in Spec the zoom buttons
\* while they are at most MaxButtonTerm.
MaxPointerTerm == 12
MaxButtonTerm == 5
\* Spec explores wheel events while zoom's denominator is at most MaxWheelDen.
MaxWheelDen == 1
\* Drags and wheel events are explored while |offset| <= MaxOffset pixels
\* on both axes, and while offset's denominators are at most MaxOffsetDen.
MaxOffset == 45
MaxOffsetDen == 2
\* SpecWheelZoom holds zoom in ZoomLimbs limbs of four decimal digits and
\* follows runs of MaxWheelRun wheel events in one direction (1.1^42 > 50
\* and 0.9^42 < 1/50: a run from either limit of zoom meets the other).
ZoomLimbs == 14
MaxWheelRun == 42
\* The checkConnection calls and the loadHistory calls of one mount.
MaxChecks == 4
MaxRequests == 3
\* getBoundingClientRect() of the canvas: its top-left corner in client
\* coordinates (the sidebar, the panel and the toolbar are left of and
\* above it).
RectLeft == 512
RectTop == 120

(***************************************************************************)
(* Program constants.                                                      *)
(***************************************************************************)
BOUNDS == [xMin |-> -914, xMax |-> 907, yMin |-> -518, yMax |-> 1270]
ZONES == {"A", "B", "C", "D"}
InitialCanvasSize == [width |-> 800, height |-> 600]
MinimapSize == [width |-> 150, height |-> 120]

(***************************************************************************)
(* Number arithmetic on exact rationals.                                   *)
(***************************************************************************)
Abs(i) == IF i < 0 THEN -i ELSE i

RECURSIVE GCD(_, _)
GCD(a, b) == IF b = 0 THEN a ELSE GCD(b, a % b)

Rat(n, d) ==
    LET g == GCD(Abs(n), Abs(d))
        s == IF d < 0 THEN -1 ELSE 1
    IN  [n |-> s * (n \div g), d |-> s * (d \div g)]

R(i) == [n |-> i, d |-> 1]

RNeg(a) == [n |-> -a.n, d |-> a.d]

RAdd(a, b) ==
    LET g == GCD(a.d, b.d)
    IN  Rat(a.n * (b.d \div g) + b.n * (a.d \div g), (a.d \div g) * b.d)

RSub(a, b) == RAdd(a, RNeg(b))

RMul(a, b) ==
    LET g1 == GCD(Abs(a.n), b.d)
        g2 == GCD(Abs(b.n), a.d)
    IN  [n |-> (a.n \div g1) * (b.n \div g2), d |-> (a.d \div g2) * (b.d \div g1)]

RInv(a) == IF a.n < 0 THEN [n |-> -a.d, d |-> -a.n] ELSE [n |-> a.d, d |-> a.n]

RDiv(a, b) == RMul(a, RInv(b))

RLt(a, b) ==
    LET g == GCD(a.d, b.d)
    IN  a.n * (b.d \div g) < b.n * (a.d \div g)

RLe(a, b) == ~RLt(b, a)

RMin(a, b) == IF RLt(b, a) THEN b ELSE a

RMax(a, b) == IF RLt(a, b) THEN b ELSE a

RAbs(a) == [n |-> Abs(a.n), d |-> a.d]

ZERO == R(0)
ONE == R(1)
ZoomMin == Rat(2, 10)
ZoomMax == R(10)

(***************************************************************************)
(* The data set the backend serves, and the pointer positions explored.    *)
(* With the initial 800x600 canvas the scale is 45/149 pixels per metre:   *)
(* 149 m are 45 px at zoom 1.                                              *)
(***************************************************************************)
Mirrors ==
    << [id |-> "A-1", x |-> 149,  y |-> 149,  z |-> "A", c |-> 99],
       [id |-> "B-1", x |-> 10,   y |-> 0,    z |-> "B", c |-> 80],
       [id |-> "C-1", x |-> -149, y |-> -149, z |-> "C", c |-> 60] >>

MirrorIds == {Mirrors[i].id : i \in 1..Len(Mirrors)}

Cursors == { [x |-> 400, y |-> 300], [x |-> 445, y |-> 255] }

\* containerRef.current.getBoundingClientRect() after a window resize
ContainerRects == { [width |-> 607, height |-> 700] }

WheelDeltas == {-100, 0, 100}
Buttons == {0, 2}

\* What getMirrorFieldData() can resolve to.
Responses ==
    { [success |-> TRUE, hasMirrors |-> TRUE, mirrors |-> Mirrors],
      [success |-> FALSE, hasMirrors |-> FALSE, mirrors |-> << >>] }

(***************************************************************************)
(* Coordinate mapper.  The closure values (canvasSize, zoom, offset) are   *)
(* explicit parameters.                                                    *)
(***************************************************************************)
viewScale(cs) ==
    RMul(RMin(Rat(cs.width, BOUNDS.xMax - BOUNDS.xMin),
              Rat(cs.height, BOUNDS.yMax - BOUNDS.yMin)),
         Rat(9, 10))

\* dataToCanvas with the Y term added instead of subtracted.
dataToCanvasNoFlip(x, y, cs, z, off) ==
    LET scale == viewScale(cs)
    IN  [x |-> RAdd(RAdd(Rat(cs.width, 2), RMul(RMul(x, scale), z)), off.x),
         y |-> RAdd(RAdd(Rat(cs.height, 2), RMul(RMul(y, scale), z)), off.y)]

dataToCanvas(x, y, cs, z, off) ==
    LET scale == viewScale(cs)
    IN  [x |-> RAdd(RAdd(Rat(cs.width, 2), RMul(RMul(x, scale), z)), off.x),
         y |-> RAdd(RSub(Rat(cs.height, 2), RMul(RMul(y, scale), z)), off.y)]

\* canvasToData without the flip of the Y axis.
canvasToDataNoFlip(cx, cy, cs, z, off) ==
    LET scale == viewScale(cs)
    IN  [x |-> RDiv(RSub(RSub(cx, Rat(cs.width, 2)), off.x), RMul(scale, z)),
         y |-> RDiv(RSub(RSub(cy, Rat(cs.height, 2)), off.y), RMul(scale, z))]

canvasToData(cx, cy, cs, z, off) ==
    LET scale == viewScale(cs)
    IN  [x |-> RDiv(RSub(RSub(cx, Rat(cs.width, 2)), off.x), RMul(scale, z)),
         y |-> RDiv(RNeg(RSub(RSub(cy, Rat(cs.height, 2)), off.y)), RMul(scale, z))]

(***************************************************************************)
(* Hit-test.                                                               *)
(***************************************************************************)
filteredMirrors(data, zones) == SelectSeq(data, LAMBDA m : m.z \in zones)

\* A distance is kept as the vector whose length it is: Math.sqrt(dx^2 + dy^2)
\* is [dx, dy], and the threshold t is [t, 0].  distLt compares two lengths
\* exactly: the squares are summed in base-10000 limbs, so no product
\* leaves the integer range.
Limbs(n) == <<n % 10000, (n \div 10000) % 10000, n \div 100000000>>

SqLimbs(n) ==
    LET l == Limbs(Abs(n))
    IN  <<l[1] * l[1], 2 * l[1] * l[2], 2 * l[1] * l[3] + l[2] * l[2],
          2 * l[2] * l[3], l[3] * l[3]>>

RECURSIVE Carry(_, _, _)
Carry(s, i, c) ==
    IF i > Len(s) THEN <<c>>
    ELSE <<(s[i] + c) % 10000>> \o Carry(s, i + 1, (s[i] + c) \div 10000)

SumSq(a, b) ==
    LET sa == SqLimbs(a)
        sb == SqLimbs(b)
    IN  Carry(<<sa[1] + sb[1], sa[2] + sb[2], sa[3] + sb[3], sa[4] + sb[4],
                sa[5] + sb[5]>>, 1, 0)

RECURSIVE DigitsLt(_, _, _)
DigitsLt(u, v, i) ==
    IF i = 0 THEN FALSE
    ELSE IF u[i] # v[i] THEN u[i] < v[i] ELSE DigitsLt(u, v, i - 1)

\* a^2 + b^2 < c^2 + d^2
SumSqLt(a, b, c, d) ==
    IF Abs(a) < 30000 /\ Abs(b) < 30000 /\ Abs(c) < 30000 /\ Abs(d) < 30000
    THEN a * a + b * b < c * c + d * d
    ELSE DigitsLt(SumSq(a, b), SumSq(c, d), 6)

LCM(a, b) == (a \div GCD(a, b)) * b

distLt(d1, d2) ==
    LET L == LCM(LCM(d1.dx.d, d1.dy.d), LCM(d2.dx.d, d2.dy.d))
        S(r) == r.n * (L \div r.d)
    IN  SumSqLt(S(d1.dx), S(d1.dy), S(d2.dx), S(d2.dy))

\* dist of the loop body, for mirror m
mirrorDist(m, dataPos) ==
    [dx |-> RSub(R(m.x), dataPos.x), dy |-> RSub(R(m.y), dataPos.y)]

hitThreshold(z) == RDiv(R(15), z)

\* The for loop: minDist is Infinity while nearest is null.
\* A scan that lets a later mirror at the same distance replace the nearest.
RECURSIVE scanMirrorsLastWins(_, _, _, _, _, _)
scanMirrorsLastWins(ms, i, dataPos, threshold, nearest, minDist) ==
    IF i > Len(ms) THEN nearest
    ELSE LET dist == mirrorDist(ms[i], dataPos)
         IN  IF /\ (nearest = NULL \/ ~distLt(minDist, dist))
                /\ distLt(dist, [dx |-> threshold, dy |-> ZERO])
             THEN scanMirrorsLastWins(ms, i + 1, dataPos, threshold, ms[i].id, dist)
             ELSE scanMirrorsLastWins(ms, i + 1, dataPos, threshold, nearest, minDist)

RECURSIVE scanMirrors(_, _, _, _, _, _)
scanMirrors(ms, i, dataPos, threshold, nearest, minDist) ==
    IF i > Len(ms) THEN nearest
    ELSE LET dist == mirrorDist(ms[i], dataPos)
         IN  IF /\ (nearest = NULL \/ distLt(dist, minDist))
                /\ distLt(dist, [dx |-> threshold, dy |-> ZERO])
             THEN scanMirrors(ms, i + 1, dataPos, threshold, ms[i].id, dist)
             ELSE scanMirrors(ms, i + 1, dataPos, threshold, nearest, minDist)

findNearestMirror(cx, cy, ms, cs, z, off) ==
    scanMirrors(ms, 1, canvasToData(R(cx), R(cy), cs, z, off),
                hitThreshold(z), NULL, [dx |-> ZERO, dy |-> ZERO])

(***************************************************************************)
(* Initial state: MirrorFieldPage has just mounted and its load effect     *)
(* has called getMirrorFieldData().                                        *)
(***************************************************************************)
Origin == [x |-> ZERO, y |-> ZERO]

NoGrab == [pos |-> [x |-> 0, y |-> 0], offset |-> Origin, zoom |-> ONE,
           wheeled |-> FALSE, moved |-> FALSE]

\* The canvas and the toolbar exist only in the page's normal view.
MapShown == mounted /\ ~mirrorDataLoading /\ mirrorDataError = NULL

(***************************************************************************)
(* The labels draw paints, and the effect that calls draw.                 *)
(***************************************************************************)
Floor(a) == a.n \div a.d

\* Math.round, and toFixed(0) of a number that is not negative
Round(a) == Floor(RAdd(a, Rat(1, 2)))

scaleMeters(z) == Round(RDiv(RDiv(R(100), z), Rat(4, 10)))

zoomPercent(z) == Round(RMul(z, R(100)))

drawLabels(z) == [scale |-> scaleMeters(z), zoom |-> zoomPercent(z)]

NoLabels == [scale |-> -1, zoom |-> -1]

\* The dependency list of the draw callback.  mirrorData stands for the
\* memoised filteredMirrors together with selectedZones.
drawDeps ==
    <<canvasSize, zoom, offset, mirrorData, selectedZones, selectedMirror,
      hoveredMirror, searchResult, colorMode>>

\* useEffect(() => { draw(); drawMinimap(); }, [draw, drawMinimap]) after the
\* commit of a handler's state updates.  draw returns early without a canvas;
\* fresh is TRUE when a dependency is a new object of the same value.
\* A draw effect that paints from the zoom of the render before.
redrawStale(fresh) ==
    canvasLabels' =
        IF ~MapShown' THEN NoLabels
        ELSE IF fresh \/ ~MapShown \/ drawDeps' # drawDeps THEN drawLabels(zoom)
        ELSE canvasLabels

redraw(fresh) ==
    canvasLabels' =
        IF ~MapShown' THEN NoLabels
        ELSE IF fresh \/ ~MapShown \/ drawDeps' # drawDeps THEN drawLabels(zoom')
        ELSE canvasLabels

\* ConnectionStatus has mounted: the hook's state is initial and the check
\* of its mount effect awaits testConnection().
ConnectionMounted ==
    /\ connected = FALSE
    /\ checking = TRUE
    /\ connectionError = NULL
    /\ checksInFlight = {1}
    /\ checkLog = <<"pending">>

\* DetectionHistoryPage is not rendered: no state, no request.
HistoryAbsent ==
    /\ records = << >>
    /\ loading = TRUE
    /\ historyError = NULL
    /\ searchTerm = ""
    /\ requestsInFlight = {}
    /\ requestLog = << >>

\* The dependency list of the drawMinimap callback; showMinimap stays true.
minimapDeps == <<selectedZones, zoom, offset, canvasSize>>

\* React.useCallback(drawMinimap, [showMinimap, selectedZones, zoom, offset,
\* canvasSize]): the callback is made anew, and closes over the mirrorData of
\* that render, only when a listed dependency changes; fresh is TRUE when
\* the handler stores a new object of the same value in one of them.
redrawMinimap(fresh) ==
    minimapMirrorData' =
        IF ~mounted' THEN << >>
        ELSE IF fresh \/ minimapDeps' # minimapDeps THEN mirrorData'
        ELSE minimapMirrorData

Init ==
    /\ mounted = TRUE
    /\ fetchInFlight = TRUE
    /\ mirrorData = << >>
    /\ mirrorDataLoading = TRUE
    /\ mirrorDataError = NULL
    /\ fetchLog = <<"pending">>
    /\ toasts = << >>
    /\ zoom = ONE
    /\ offset = Origin
    /\ isDragging = FALSE
    /\ dragStart = Origin
    /\ selectedMirror = NULL
    /\ hoveredMirror = NULL
    /\ selectedZones = ZONES
    /\ canvasSize = InitialCanvasSize
    /\ colorMode = "cleanliness"
    /\ searchResult = NULL
    /\ canvasLabels = NoLabels
    /\ minimapMirrorData = << >>
    /\ pointer = [x |-> 400, y |-> 300]
    /\ pressed = {}
    /\ clickPending = FALSE
    /\ grab = NoGrab
    /\ ConnectionMounted
    /\ HistoryAbsent

viewVars == <<zoom, offset, isDragging, dragStart, selectedMirror, hoveredMirror,
              selectedZones, canvasSize, pointer, pressed, clickPending, grab>>

\* The outcome of the pending call recorded in the log.
settle(log, outcome) == [log EXCEPT ![Len(log)] = outcome]

(***************************************************************************)
(* The load effect: the continuation of `await getMirrorFieldData()`.      *)
(* It has no cleanup, so it runs whether or not the page is still mounted. *)
(***************************************************************************)
\* A load that takes an empty list of mirrors for a failure.
loadMirrorDataRejectsEmpty(response) ==
    /\ fetchInFlight
    /\ fetchInFlight' = FALSE
    /\ IF response.success /\ response.hasMirrors /\ Len(response.mirrors) > 0
       THEN /\ mirrorData' = response.mirrors
            /\ fetchLog' = settle(fetchLog, "loaded")
            /\ UNCHANGED <<mirrorDataError, toasts>>
       ELSE /\ mirrorDataError' = "Failed to load mirror data"
            /\ fetchLog' = settle(fetchLog, IF response.success /\ response.hasMirrors
                                            THEN "loaded" ELSE "failed")
            /\ toasts' = Append(toasts, "error")
            /\ UNCHANGED mirrorData
    /\ mirrorDataLoading' = FALSE
    /\ UNCHANGED <<mounted, viewVars, panelVars>>
    /\ redraw(TRUE)
    /\ redrawMinimap(FALSE)
    /\ UNCHANGED otherPages

loadMirrorDataResolved(response) ==
    /\ fetchInFlight
    /\ fetchInFlight' = FALSE
    /\ IF response.success /\ response.hasMirrors
       THEN /\ mirrorData' = response.mirrors
            /\ fetchLog' = settle(fetchLog, "loaded")
            /\ UNCHANGED <<mirrorDataError, toasts>>
       ELSE /\ mirrorDataError' = "Failed to load mirror data"
            /\ fetchLog' = settle(fetchLog, "failed")
            /\ toasts' = Append(toasts, "error")
            /\ UNCHANGED mirrorData
    /\ mirrorDataLoading' = FALSE
    /\ UNCHANGED <<mounted, viewVars, panelVars>>
    /\ redraw(TRUE)
    /\ redrawMinimap(FALSE)
    /\ UNCHANGED otherPages

\* A rejection handler that calls getMirrorFieldData() again by itself.
loadMirrorDataRejectedRetries ==
    /\ fetchInFlight
    /\ Len(fetchLog) < 3
    /\ fetchLog' = Append(settle(fetchLog, "failed"), "pending")
    /\ toasts' = Append(toasts, "error")
    /\ UNCHANGED <<mounted, fetchInFlight, mirrorData, mirrorDataLoading,
                   mirrorDataError, viewVars, panelVars>>
    /\ redraw(FALSE)
    /\ redrawMinimap(FALSE)
    /\ UNCHANGED otherPages

loadMirrorDataRejected ==
    /\ fetchInFlight
    /\ fetchInFlight' = FALSE
    /\ mirrorDataError' = "Network error"
    /\ fetchLog' = settle(fetchLog, "failed")
    /\ toasts' = Append(toasts, "error")
    /\ mirrorDataLoading' = FALSE
    /\ UNCHANGED <<mounted, mirrorData, viewVars, panelVars>>
    /\ redraw(FALSE)
    /\ redrawMinimap(FALSE)
    /\ UNCHANGED otherPages

\* AppContent renders another page: MirrorFieldPage unmounts and its view
\* state is discarded.  The setters captured by a pending loadMirrorData
\* stay callable.
Unmount ==
    /\ mounted
    /\ pressed = {} /\ ~clickPending
    /\ mounted' = FALSE
    /\ zoom' = ONE
    /\ offset' = Origin
    /\ isDragging' = FALSE
    /\ dragStart' = Origin
    /\ selectedMirror' = NULL
    /\ hoveredMirror' = NULL
    /\ selectedZones' = ZONES
    /\ canvasSize' = InitialCanvasSize
    /\ colorMode' = "cleanliness"
    /\ searchResult' = NULL
    /\ UNCHANGED <<fetchInFlight, mirrorData, mirrorDataLoading, mirrorDataError,
                   fetchLog, toasts, pointer, pressed, clickPending, grab>>
    /\ redraw(FALSE)
    /\ redrawMinimap(FALSE)
    /\ UNCHANGED otherPages


(***************************************************************************)
(* Viewport controller.                                                    *)
(***************************************************************************)
PointerExplored == zoom.n <= MaxPointerTerm /\ zoom.d <= MaxPointerTerm

OffsetExplored(off) ==
    /\ RLe(RAbs(off.x), R(MaxOffset)) /\ RLe(RAbs(off.y), R(MaxOffset))
    /\ off.x.d <= MaxOffsetDen /\ off.y.d <= MaxOffsetDen

clamp(lo, hi, v) == RMax(lo, RMin(hi, v))

wheelZoom(z, deltaY) ==
    LET delta == IF deltaY > 0 THEN Rat(9, 10) ELSE Rat(11, 10)
    IN  clamp(ZoomMin, ZoomMax, RMul(z, delta))

wheelOffset(prev, mouse, cs, z, newZoom) ==
    LET centerX == Rat(cs.width, 2)
        centerY == Rat(cs.height, 2)
        k == RSub(RDiv(newZoom, z), ONE)
    IN  [x |-> RSub(prev.x, RMul(RSub(R(mouse.x), centerX), k)),
         y |-> RSub(prev.y, RMul(RSub(R(mouse.y), centerY), k))]

handleWheel(deltaY, maxNum, maxDen) ==
    /\ MapShown /\ ~clickPending
    /\ zoom.n <= maxNum /\ zoom.d <= maxDen
    /\ LET newZoom == wheelZoom(zoom, deltaY)
           newOffset == wheelOffset(offset, pointer, canvasSize, zoom, newZoom)
       IN  /\ OffsetExplored(newOffset)
           /\ offset' = newOffset
           /\ zoom' = newZoom
    /\ grab' = IF 0 \in pressed THEN [grab EXCEPT !.wheeled = TRUE] ELSE grab
    /\ UNCHANGED <<lifecycleVars, isDragging, dragStart, selectedMirror,
                   hoveredMirror, selectedZones, canvasSize, pointer, pressed,
                   clickPending>>
    /\ UNCHANGED panelVars
    /\ redraw(FALSE)
    /\ redrawMinimap(TRUE)
    /\ UNCHANGED otherPages

\* e.clientX, e.clientY of an event at the pointer
clientPos(p) == [x |-> p.x + RectLeft, y |-> p.y + RectTop]

\* A drag anchor that forgets the offset at the time of the mousedown.
anchorNoOffset(p, off) == [x |-> R(clientPos(p).x), y |-> R(clientPos(p).y)]

anchor(p, off) ==
    [x |-> RSub(R(clientPos(p).x), off.x), y |-> RSub(R(clientPos(p).y), off.y)]

\* A mousedown that starts a drag whichever button went down.
handleMouseDownAnyButton(button) ==
    /\ MapShown /\ ~clickPending
    /\ PointerExplored
    /\ button \notin pressed
    /\ pressed' = pressed \cup {button}
    /\ isDragging' = TRUE
    /\ dragStart' = anchor(pointer, offset)
    /\ grab' = [pos |-> pointer, offset |-> offset, zoom |-> zoom,
                wheeled |-> FALSE, moved |-> FALSE]
    /\ UNCHANGED <<lifecycleVars, zoom, offset, selectedMirror, hoveredMirror,
                   selectedZones, canvasSize, pointer, clickPending>>
    /\ UNCHANGED panelVars
    /\ redraw(FALSE)
    /\ redrawMinimap(FALSE)
    /\ UNCHANGED otherPages

handleMouseDown(button) ==
    /\ MapShown /\ ~clickPending
    /\ PointerExplored
    /\ button \notin pressed
    /\ pressed' = pressed \cup {button}
    /\ IF button = 0
       THEN /\ isDragging' = TRUE
            /\ dragStart' = anchor(pointer, offset)
            /\ grab' = [pos |-> pointer, offset |-> offset, zoom |-> zoom,
                        wheeled |-> FALSE, moved |-> FALSE]
       ELSE UNCHANGED <<isDragging, dragStart, grab>>
    /\ UNCHANGED <<lifecycleVars, zoom, offset, selectedMirror, hoveredMirror,
                   selectedZones, canvasSize, pointer, clickPending>>
    /\ UNCHANGED panelVars
    /\ redraw(FALSE)
    /\ redrawMinimap(FALSE)
    /\ UNCHANGED otherPages

dragOffset(p, start) ==
    [x |-> RSub(R(clientPos(p).x), start.x), y |-> RSub(R(clientPos(p).y), start.y)]

\* A mousemove whose hover hit-test reads client instead of canvas coordinates.
handleMouseMoveClientHit(p) ==
    /\ MapShown /\ ~clickPending
    /\ PointerExplored
    /\ p # pointer
    /\ pointer' = p
    /\ IF isDragging
       THEN /\ OffsetExplored(dragOffset(p, dragStart))
            /\ offset' = dragOffset(p, dragStart)
            /\ grab' = [grab EXCEPT !.moved = TRUE]
            /\ UNCHANGED hoveredMirror
       ELSE /\ hoveredMirror' =
                findNearestMirror(clientPos(p).x, clientPos(p).y,
                                  filteredMirrors(mirrorData, selectedZones),
                                  canvasSize, zoom, offset)
            /\ UNCHANGED <<offset, grab>>
    /\ UNCHANGED <<lifecycleVars, zoom, isDragging, dragStart, selectedMirror,
                   selectedZones, canvasSize, pressed, clickPending>>
    /\ UNCHANGED panelVars
    /\ redraw(FALSE)
    /\ redrawMinimap(FALSE)
    /\ UNCHANGED otherPages

handleMouseMove(p) ==
    /\ MapShown /\ ~clickPending
    /\ PointerExplored
    /\ p # pointer
    /\ pointer' = p
    /\ IF isDragging
       THEN /\ OffsetExplored(dragOffset(p, dragStart))
            /\ offset' = dragOffset(p, dragStart)
            /\ grab' = [grab EXCEPT !.moved = TRUE]
            /\ UNCHANGED hoveredMirror
       ELSE /\ hoveredMirror' =
                findNearestMirror(p.x, p.y, filteredMirrors(mirrorData, selectedZones),
                                  canvasSize, zoom, offset)
            /\ UNCHANGED <<offset, grab>>
    /\ UNCHANGED <<lifecycleVars, zoom, isDragging, dragStart, selectedMirror,
                   selectedZones, canvasSize, pressed, clickPending>>
    /\ UNCHANGED panelVars
    /\ redraw(FALSE)
    /\ redrawMinimap(FALSE)
    /\ UNCHANGED otherPages

\* onMouseUp: the release of the primary button is followed by a click
\* event on the canvas, the mousedown having been on the canvas too.
handleMouseUp(button) ==
    /\ MapShown /\ ~clickPending
    /\ button \in pressed
    /\ pressed' = pressed \ {button}
    /\ clickPending' = (button = 0)
    /\ isDragging' = FALSE
    /\ UNCHANGED <<lifecycleVars, zoom, offset, dragStart, selectedMirror,
                   hoveredMirror, selectedZones, canvasSize, pointer, grab>>
    /\ UNCHANGED panelVars
    /\ redraw(FALSE)
    /\ redrawMinimap(FALSE)
    /\ UNCHANGED otherPages

\* onMouseLeave={handleMouseUp}: the pointer leaves the canvas; a button
\* still held is released elsewhere and no click follows.
handleMouseLeave ==
    /\ MapShown /\ ~clickPending
    /\ isDragging' = FALSE
    /\ pressed' = {}
    /\ grab' = NoGrab
    /\ UNCHANGED <<lifecycleVars, zoom, offset, dragStart, selectedMirror,
                   hoveredMirror, selectedZones, canvasSize, pointer, clickPending>>
    /\ UNCHANGED panelVars
    /\ redraw(FALSE)
    /\ redrawMinimap(FALSE)
    /\ UNCHANGED otherPages

\* A click that keeps the selection when it hits no mirror.
handleClickKeepsSelection ==
    /\ MapShown /\ clickPending
    /\ PointerExplored
    /\ clickPending' = FALSE
    /\ grab' = NoGrab
    /\ LET mirror == findNearestMirror(pointer.x, pointer.y,
                                       filteredMirrors(mirrorData, selectedZones),
                                       canvasSize, zoom, offset)
       IN  selectedMirror' = IF mirror = NULL THEN selectedMirror ELSE mirror
    /\ UNCHANGED <<lifecycleVars, zoom, offset, isDragging, dragStart,
                   hoveredMirror, selectedZones, canvasSize, pointer, pressed>>
    /\ UNCHANGED panelVars
    /\ redraw(FALSE)
    /\ redrawMinimap(FALSE)
    /\ UNCHANGED otherPages

handleClick ==
    /\ MapShown /\ clickPending
    /\ PointerExplored
    /\ clickPending' = FALSE
    /\ grab' = NoGrab
    /\ IF isDragging
       THEN UNCHANGED selectedMirror
       ELSE selectedMirror' =
                findNearestMirror(pointer.x, pointer.y,
                                  filteredMirrors(mirrorData, selectedZones),
                                  canvasSize, zoom, offset)
    /\ UNCHANGED <<lifecycleVars, zoom, offset, isDragging, dragStart,
                   hoveredMirror, selectedZones, canvasSize, pointer, pressed>>
    /\ UNCHANGED panelVars
    /\ redraw(FALSE)
    /\ redrawMinimap(FALSE)
    /\ UNCHANGED otherPages

(***************************************************************************)
(* Toolbar.                                                                *)
(***************************************************************************)
ToolbarUsable == MapShown /\ pressed = {} /\ ~clickPending

zoomOutValue(z) == RMax(ZoomMin, RMul(z, Rat(8, 10)))

\* A zoom-in step without the upper clamp.
zoomInUnclamped(z) == RMul(z, Rat(125, 100))

zoomInValue(z) == RMin(ZoomMax, RMul(z, Rat(125, 100)))

zoomOutButton(maxNum, maxDen) ==
    /\ ToolbarUsable
    /\ zoom.n <= maxNum /\ zoom.d <= maxDen
    /\ zoom' = zoomOutValue(zoom)
    /\ UNCHANGED <<lifecycleVars, offset, isDragging, dragStart, selectedMirror,
                   hoveredMirror, selectedZones, canvasSize, pointer, pressed,
                   clickPending, grab>>
    /\ UNCHANGED panelVars
    /\ redraw(FALSE)
    /\ redrawMinimap(FALSE)
    /\ UNCHANGED otherPages

zoomInButton(maxNum, maxDen) ==
    /\ ToolbarUsable
    /\ zoom.n <= maxNum /\ zoom.d <= maxDen
    /\ zoom' = zoomInValue(zoom)
    /\ UNCHANGED <<lifecycleVars, offset, isDragging, dragStart, selectedMirror,
                   hoveredMirror, selectedZones, canvasSize, pointer, pressed,
                   clickPending, grab>>
    /\ UNCHANGED panelVars
    /\ redraw(FALSE)
    /\ redrawMinimap(FALSE)
    /\ UNCHANGED otherPages

resetView ==
    /\ ToolbarUsable
    /\ zoom' = ONE
    /\ offset' = Origin
    /\ selectedZones' = ZONES
    /\ UNCHANGED <<lifecycleVars, isDragging, dragStart, selectedMirror,
                   hoveredMirror, canvasSize, pointer, pressed, clickPending, grab>>
    /\ UNCHANGED panelVars
    /\ redraw(FALSE)
    /\ redrawMinimap(TRUE)
    /\ UNCHANGED otherPages

\* window 'resize' listener of the size effect
updateSize(rect) ==
    /\ ToolbarUsable
    /\ canvasSize' = [width |-> rect.width,
                      height |-> IF rect.height > 500 THEN rect.height ELSE 500]
    /\ UNCHANGED <<lifecycleVars, zoom, offset, isDragging, dragStart,
                   selectedMirror, hoveredMirror, selectedZones, pointer, pressed,
                   clickPending, grab>>
    /\ UNCHANGED panelVars
    /\ redraw(FALSE)
    /\ redrawMinimap(TRUE)
    /\ UNCHANGED otherPages

(***************************************************************************)
(* Specifications.                                                         *)
(***************************************************************************)
Load ==
    \/ \E response \in Responses : loadMirrorDataResolved(response)
    \/ loadMirrorDataRejected

Next ==
    \/ Load
    \/ Unmount
    \/ \E deltaY \in WheelDeltas : handleWheel(deltaY, MaxPointerTerm, MaxWheelDen)
    \/ \E button \in Buttons : handleMouseDown(button)
    \/ \E p \in Cursors : handleMouseMove(p)
    \/ \E button \in Buttons : handleMouseUp(button)
    \/ handleMouseLeave
    \/ handleClick
    \/ zoomOutButton(MaxButtonTerm, MaxButtonTerm)
    \/ zoomInButton(MaxButtonTerm, MaxButtonTerm)
    \/ resetView
    \/ \E rect \in ContainerRects : updateSize(rect)

Spec == Init /\ [][Next]_vars

\* The zoom operations alone, explored to both limits of zoom.
NextZoom ==
    \/ Load
    \/ \E deltaY \in WheelDeltas : handleWheel(deltaY, MaxPointerTerm, MaxPointerTerm)
    \/ \E p \in Cursors : handleMouseMove(p)
    \/ zoomOutButton(MaxZoomNum, MaxZoomDen)
    \/ zoomInButton(MaxZoomNum, MaxZoomDen)
    \/ resetView

SpecZoom == Init /\ [][NextZoom]_vars

(***************************************************************************)
(* Minimap: the viewport rectangle stroked by drawMinimap, and the         *)
(* mapping drawMinimap uses for the points it plots.                       *)
(***************************************************************************)
minimapScale ==
    RMul(RMin(Rat(MinimapSize.width, BOUNDS.xMax - BOUNDS.xMin),
              Rat(MinimapSize.height, BOUNDS.yMax - BOUNDS.yMin)),
         Rat(9, 10))

minimapPoint(x, y) ==
    [x |-> RAdd(Rat(MinimapSize.width, 2), RMul(x, minimapScale)),
     y |-> RSub(Rat(MinimapSize.height, 2), RMul(y, minimapScale))]

minimapViewRect(cs, z, off) ==
    LET mainScale == viewScale(cs)
        viewW == RMul(RDiv(RDiv(R(cs.width), mainScale), z), minimapScale)
        viewH == RMul(RDiv(RDiv(R(cs.height), mainScale), z), minimapScale)
    IN  [x |-> RSub(RSub(Rat(MinimapSize.width, 2),
                         RMul(RDiv(RDiv(off.x, mainScale), z), minimapScale)),
                    RDiv(viewW, R(2))),
         y |-> RSub(RAdd(Rat(MinimapSize.height, 2),
                         RMul(RDiv(RDiv(off.y, mainScale), z), minimapScale)),
                    RDiv(viewH, R(2))),
         w |-> viewW,
         h |-> viewH]

(***************************************************************************)
(* Properties.                                                             *)
(***************************************************************************)
WithinPx(a, b, tol) ==
    /\ RLe(RAbs(RSub(a.x, b.x)), R(tol))
    /\ RLe(RAbs(RSub(a.y, b.y)), R(tol))

WheelStep == \E deltaY \in WheelDeltas : handleWheel(deltaY, MaxPointerTerm, MaxWheelDen)

\* C1: zoom-to-cursor.  The world point that canvasToData gives for the
\* cursor before a wheel event is mapped by dataToCanvas, with the zoom and
\* offset the event produces, to within 1 px of the cursor.
C1_ZoomToCursor ==
    [][WheelStep =>
         LET w == canvasToData(R(pointer.x), R(pointer.y), canvasSize, zoom, offset)
         IN  WithinPx(dataToCanvas(w.x, w.y, canvasSize', zoom', offset'),
                      [x |-> R(pointer.x), y |-> R(pointer.y)], 1)]_vars

\* C2: a click that ends a press during which a pointerMove changed offset
\* leaves selectedMirror as it was (selectedMirror is written by no handler
\* between the mousedown and the click).
C2_NoSelectAfterDrag ==
    [][(clickPending /\ grab.moved) => selectedMirror' = selectedMirror]_vars

\* The distance in screen pixels between mirror m as drawn and the cursor c.
pixelDist(m, c) ==
    LET pos == dataToCanvas(R(m.x), R(m.y), canvasSize, zoom, offset)
    IN  [dx |-> RSub(pos.x, R(c.x)), dy |-> RSub(pos.y, R(c.y))]

basePixelThreshold == [dx |-> R(15), dy |-> ZERO]

\* C3: the hit threshold is 15 screen pixels at every zoom and canvas size.
\* A drawn mirror nearer than 15 px to the cursor, and nearer than every
\* other one, is what findNearestMirror returns; a mirror farther than 15 px
\* is not returned.
C3_HitThresholdInPixels ==
    MapShown =>
      LET ms == filteredMirrors(mirrorData, selectedZones)
      IN  \A c \in Cursors : \A i \in 1..Len(ms) :
            LET found == findNearestMirror(c.x, c.y, ms, canvasSize, zoom, offset)
                k == pixelDist(ms[i], c)
            IN  /\ (/\ distLt(k, basePixelThreshold)
                    /\ \A j \in 1..Len(ms) : j # i => distLt(k, pixelDist(ms[j], c)))
                   => found = ms[i].id
                /\ distLt(basePixelThreshold, k) => found # ms[i].id

\* C4: zoom lies in [0.2, 10] in every reachable state.
C4_ZoomInRange == RLe(ZoomMin, zoom) /\ RLe(zoom, ZoomMax)

C4_Witness == MapShown /\ zoom = ZoomMax /\ offset # Origin

\* C5: the minimap rectangle is the minimap image of the world rectangle
\* shown by the main canvas, whose corners canvasToData gives for the canvas
\* corners (0, 0) and (width, height).
C5_MinimapRectIsViewport ==
    MapShown =>
      LET topLeft == canvasToData(ZERO, ZERO, canvasSize, zoom, offset)
          bottomRight == canvasToData(R(canvasSize.width), R(canvasSize.height),
                                      canvasSize, zoom, offset)
          r == minimapViewRect(canvasSize, zoom, offset)
      IN  /\ [x |-> r.x, y |-> r.y] = minimapPoint(topLeft.x, topLeft.y)
          /\ [x |-> RAdd(r.x, r.w), y |-> RAdd(r.y, r.h)]
               = minimapPoint(bottomRight.x, bottomRight.y)

\* C6: once MirrorFieldPage has unmounted, the settling of its fetch
\* changes no state of the page and shows no toast.
C6_NoUpdateAfterUnmount ==
    [][~mounted =>
         UNCHANGED <<mirrorData, mirrorDataError, mirrorDataLoading, toasts>>]_vars

PrimaryDown == 0 \notin pressed /\ 0 \in pressed'

DragMove == isDragging /\ pointer' # pointer

\* C7: a pointerDown records anchor = pointer position - offset; while
\* Dragging each pointerMove sets offset = pointer position - anchor and
\* leaves zoom alone, so that a drag from p0 to p1 with no wheel event in
\* between changes offset by exactly p1 - p0.
C7_DragTranslates ==
    [][/\ PrimaryDown =>
            /\ dragStart'.x = RSub(R(pointer.x + RectLeft), offset.x)
            /\ dragStart'.y = RSub(R(pointer.y + RectTop), offset.y)
       /\ DragMove =>
            /\ offset'.x = RSub(R(pointer'.x + RectLeft), dragStart.x)
            /\ offset'.y = RSub(R(pointer'.y + RectTop), dragStart.y)
            /\ zoom' = zoom
            /\ ~grab.wheeled =>
                 /\ RSub(offset'.x, grab.offset.x) = R(pointer'.x - grab.pos.x)
                 /\ RSub(offset'.y, grab.offset.y) = R(pointer'.y - grab.pos.y)
      ]_vars

C7_Witness ==
    /\ isDragging /\ grab.moved /\ ~grab.wheeled
    /\ grab.offset # Origin
    /\ offset # grab.offset

\* C8 as stated: from Idle, a pointerDown (of whatever button) enters Dragging.
C8_AnyPointerDownDrags ==
    [][(~isDragging /\ pressed' # pressed /\ pressed \subseteq pressed')
         => isDragging']_vars

\* C8, amended: from Idle a pointerDown of the primary button enters
\* Dragging and records the anchor, and one of another button changes
\* nothing; from Dragging every pointerUp or pointerLeave returns to Idle;
\* no other event changes isDragging, and a wheel event leaves it as it is.
C8_TwoStateMachine ==
    [][/\ PrimaryDown =>
            /\ isDragging'
            /\ dragStart'.x = RSub(R(pointer.x + RectLeft), offset.x)
            /\ dragStart'.y = RSub(R(pointer.y + RectTop), offset.y)
       /\ (pressed' # pressed /\ pressed \subseteq pressed' /\ ~PrimaryDown)
            => UNCHANGED <<isDragging, dragStart>>
       /\ (pressed' # pressed /\ pressed' \subseteq pressed) => ~isDragging'
       /\ isDragging' # isDragging => pressed' # pressed
       /\ WheelStep => isDragging' = isDragging
      ]_vars

\* A wheel event was accepted while Dragging.
C8_Witness == isDragging /\ grab.wheeled /\ 2 \in pressed

\* C9: in Idle a pointerMove leaves zoom, offset and selectedMirror as they
\* are and sets hoveredMirror to the hit-test at the new pointer position.
C9_IdleMoveHovers ==
    [][(~isDragging /\ pointer' # pointer) =>
         /\ zoom' = zoom
         /\ offset' = offset
         /\ selectedMirror' = selectedMirror
         /\ hoveredMirror' =
              findNearestMirror(pointer'.x, pointer'.y,
                                filteredMirrors(mirrorData, selectedZones),
                                canvasSize, zoom, offset)]_vars

C9_Witness == ~isDragging /\ hoveredMirror = "A-1" /\ selectedMirror = "B-1"

\* World points within BOUNDS: its corners, the tower and the mirrors.
WorldProbes ==
    { [x |-> BOUNDS.xMin, y |-> BOUNDS.yMin], [x |-> BOUNDS.xMax, y |-> BOUNDS.yMax],
      [x |-> BOUNDS.xMin, y |-> BOUNDS.yMax], [x |-> 0, y |-> 0] }
    \cup { [x |-> Mirrors[i].x, y |-> Mirrors[i].y] : i \in 1..Len(Mirrors) }

\* C10: round trip.  canvasToData(dataToCanvas(p)) = p for every world
\* point p within BOUNDS, at every zoom, offset and canvas size.
C10_RoundTrip ==
    \A p \in WorldProbes :
        LET s == dataToCanvas(R(p.x), R(p.y), canvasSize, zoom, offset)
            w == canvasToData(s.x, s.y, canvasSize, zoom, offset)
        IN  w = [x |-> R(p.x), y |-> R(p.y)]

C10_Witness ==
    /\ zoom # ONE /\ offset.x # ZERO /\ offset.y # ZERO
    /\ canvasSize # InitialCanvasSize

\* The percentage the toolbar shows between the zoom buttons.
toolbarZoomLabel == zoomPercent(zoom)

\* C18: whenever the map is shown, the scale-bar label and the zoom
\* percentage painted on the canvas are those of the current zoom, and the
\* canvas percentage equals the toolbar percentage.
C18_LabelsFollowZoom ==
    MapShown =>
      /\ canvasLabels.zoom = toolbarZoomLabel
      /\ canvasLabels.zoom = Round(RMul(zoom, R(100)))
      /\ canvasLabels.scale = Round(RDiv(R(250), zoom))

C18_Witness == MapShown /\ canvasLabels.zoom = 125 /\ canvasLabels.scale = 200

(***************************************************************************)
(* The zoom computation of handleWheel on its own, iterated.               *)
(*                                                                         *)
(* Repeated factors 1.1 and 0.9 need more digits than a machine integer    *)
(* holds, so in SpecWheelZoom zoom is a fixed-point decimal: a sequence of *)
(* ZoomLimbs base-10000 limbs, least significant first, whose last limb is *)
(* the integer part.  A product by 1.1 or 0.9 is exact as long as the      *)
(* value has a free decimal place.                                         *)
(***************************************************************************)
WideOf(i, frac) == [k \in 1..ZoomLimbs |->
                      IF k = ZoomLimbs THEN i ELSE IF k = ZoomLimbs - 1 THEN frac ELSE 0]

WideOne == WideOf(1, 0)
WideZoomMin == WideOf(0, 2000)
WideZoomMax == WideOf(10, 0)

WideLt(u, v) == DigitsLt(u, v, ZoomLimbs)

MulSmall(w, k) == SubSeq(Carry([i \in 1..Len(w) |-> w[i] * k], 1, 0), 1, Len(w))

RECURSIVE DivSmall(_, _, _, _)
DivSmall(w, i, r, k) ==
    IF i = 0 THEN << >>
    ELSE LET cur == r * 10000 + w[i]
         IN  DivSmall(w, i - 1, cur % k, k) \o <<cur \div k>>

\* zoom * 0.9 when goOut, zoom * 1.1 otherwise, not clamped
wheelProduct(w, goOut) ==
    DivSmall(MulSmall(w, IF goOut THEN 9 ELSE 11), ZoomLimbs, 0, 10)

\* A zoom computation that takes a wheel event with deltaY = 0 as a zoom-out.
wheelZoomWideZeroOut(w, deltaY) ==
    LET p == wheelProduct(w, deltaY >= 0)
        capped == IF WideLt(WideZoomMax, p) THEN WideZoomMax ELSE p
    IN  IF WideLt(capped, WideZoomMin) THEN WideZoomMin ELSE capped

\* newZoom = Math.max(0.2, Math.min(10, zoom * delta))
wheelZoomWide(w, deltaY) ==
    LET p == wheelProduct(w, deltaY > 0)
        capped == IF WideLt(WideZoomMax, p) THEN WideZoomMax ELSE p
    IN  IF WideLt(capped, WideZoomMin) THEN WideZoomMin ELSE capped

Pow10(k) == IF k = 0 THEN 1 ELSE IF k = 1 THEN 10 ELSE IF k = 2 THEN 100 ELSE 1000

\* MaxWheelRun more products of w are exact: w is a multiple of 10^MaxWheelRun.
WheelExplored(w) ==
    /\ \A i \in 1..(MaxWheelRun \div 4) : w[i] = 0
    /\ w[(MaxWheelRun \div 4) + 1] % Pow10(MaxWheelRun % 4) = 0

InitWheelZoom ==
    /\ mounted = TRUE
    /\ fetchInFlight = FALSE
    /\ mirrorData = Mirrors
    /\ mirrorDataLoading = FALSE
    /\ mirrorDataError = NULL
    /\ fetchLog = <<"loaded">>
    /\ toasts = << >>
    /\ zoom \in {WideOne, WideZoomMin, WideZoomMax}
    /\ offset = Origin
    /\ isDragging = FALSE
    /\ dragStart = Origin
    /\ selectedMirror = NULL
    /\ hoveredMirror = NULL
    /\ selectedZones = ZONES
    /\ canvasSize = InitialCanvasSize
    /\ colorMode = "cleanliness"
    /\ searchResult = NULL
    /\ canvasLabels = NoLabels
    /\ minimapMirrorData = << >>
    /\ pointer = [x |-> 400, y |-> 300]
    /\ pressed = {}
    /\ clickPending = FALSE
    /\ grab = NoGrab
    /\ ConnectionMounted
    /\ HistoryAbsent

wheelZoomStep(deltaY) ==
    /\ WheelExplored(zoom)
    /\ zoom' = wheelZoomWide(zoom, deltaY)
    /\ minimapMirrorData' = mirrorData
    /\ UNCHANGED otherPages
    /\ UNCHANGED <<lifecycleVars, panelVars, offset, isDragging, dragStart,
                   selectedMirror, hoveredMirror, selectedZones, canvasSize,
                   canvasLabels, pointer, pressed, clickPending, grab>>

NextWheelZoom == \E deltaY \in WheelDeltas : wheelZoomStep(deltaY)

SpecWheelZoom == InitWheelZoom /\ [][NextWheelZoom]_vars

RECURSIVE wheelRun(_, _, _)
wheelRun(w, deltaY, count) ==
    IF count = 0 THEN w
    ELSE LET newZoom == wheelZoomWide(w, deltaY)
         IN  IF newZoom = w THEN w ELSE wheelRun(newZoom, deltaY, count - 1)

\* C11: a wheel event with deltaY <= 0 strictly increases zoom while
\* zoom < 10 and leaves it at 10 once there; one with deltaY > 0 strictly
\* decreases zoom while zoom > 0.2 and leaves it at 0.2 once there; and
\* MaxWheelRun events in one direction end at the bound of that direction.
C11_WheelZoomMonotone ==
    /\ \A deltaY \in WheelDeltas :
         LET newZoom == wheelZoomWide(zoom, deltaY)
         IN  IF deltaY <= 0
             THEN IF WideLt(zoom, WideZoomMax)
                  THEN WideLt(zoom, newZoom) /\ ~WideLt(WideZoomMax, newZoom)
                  ELSE newZoom = WideZoomMax
             ELSE IF WideLt(WideZoomMin, zoom)
                  THEN WideLt(newZoom, zoom) /\ ~WideLt(newZoom, WideZoomMin)
                  ELSE newZoom = WideZoomMin
    /\ WheelExplored(zoom) =>
         /\ \A deltaY \in {d \in WheelDeltas : d <= 0} :
              wheelRun(zoom, deltaY, MaxWheelRun) = WideZoomMax
         /\ \A deltaY \in {d \in WheelDeltas : d > 0} :
              wheelRun(zoom, deltaY, MaxWheelRun) = WideZoomMin

\* zoom is 9.9: below 10, and the next zoom-in is cut to 10.
C11_Witness ==
    /\ zoom = WideOf(9, 9000)
    /\ wheelZoomWide(zoom, -100) = WideZoomMax
    /\ wheelRun(WideOne, -100, MaxWheelRun - 1) = WideZoomMax
    /\ wheelRun(WideOne, -100, 24) # WideZoomMax

ClickStep == clickPending /\ ~clickPending'

\* The distance in world units between mirror m and the world point under
\* the pointer.
worldDist(m) ==
    LET dataPos == canvasToData(R(pointer.x), R(pointer.y), canvasSize, zoom, offset)
    IN  [dx |-> RSub(R(m.x), dataPos.x), dy |-> RSub(R(m.y), dataPos.y)]

\* C12: a click on the pixel that dataToCanvas gives for a visible mirror
\* strictly nearer than every other visible mirror selects that mirror; a
\* click farther than the threshold (15 / zoom world units) from every
\* visible mirror sets selectedMirror to null, whatever was selected before.
C12_ClickSelects ==
    [][ClickStep =>
         LET ms == filteredMirrors(mirrorData, selectedZones)
         IN  /\ \A i \in 1..Len(ms) :
                  (/\ dataToCanvas(R(ms[i].x), R(ms[i].y), canvasSize, zoom, offset)
                        = [x |-> R(pointer.x), y |-> R(pointer.y)]
                   /\ \A j \in 1..Len(ms) :
                        j # i => distLt(pixelDist(ms[i], pointer), pixelDist(ms[j], pointer)))
                  => selectedMirror' = ms[i].id
             /\ (\A i \in 1..Len(ms) :
                   distLt([dx |-> RDiv(R(15), zoom), dy |-> ZERO], worldDist(ms[i])))
                  => selectedMirror' = NULL]_vars

\* C-1 is selected and lies exactly under the pointer, after a pan.
C12_Witness ==
    /\ MapShown /\ ~clickPending /\ selectedMirror = "C-1"
    /\ offset # Origin
    /\ dataToCanvas(R(-149), R(-149), canvasSize, zoom, offset)
         = [x |-> R(pointer.x), y |-> R(pointer.y)]

(***************************************************************************)
(* Data, colours and the draw callback.                                    *)
(***************************************************************************)
\* A data set with two mirrors at the same distance from the tower, one
\* mirror in each cleanliness bucket.
TieMirrors ==
    << [id |-> "A-1", x |-> 149,  y |-> 149,  z |-> "A", c |-> 99],
       [id |-> "B-1", x |-> 10,   y |-> 0,    z |-> "B", c |-> 80],
       [id |-> "D-1", x |-> -10,  y |-> 0,    z |-> "D", c |-> 88],
       [id |-> "C-1", x |-> -149, y |-> -149, z |-> "C", c |-> 60] >>

\* A data set whose first record has a zone the page does not know.
MalformedMirrors ==
    << [id |-> "E-1", x |-> 10, y |-> 10, z |-> "E", c |-> 50],
       [id |-> "A-1", x |-> 149, y |-> 149, z |-> "A", c |-> 99] >>

DataResponses ==
    { [success |-> TRUE, hasMirrors |-> TRUE, mirrors |-> TieMirrors],
      [success |-> TRUE, hasMirrors |-> TRUE, mirrors |-> << >>],
      [success |-> TRUE, hasMirrors |-> TRUE, mirrors |-> MalformedMirrors],
      [success |-> TRUE, hasMirrors |-> FALSE, mirrors |-> << >>],
      [success |-> FALSE, hasMirrors |-> FALSE, mirrors |-> << >>] }

ColorModes == {"cleanliness", "zone"}

ZONE_COLORS == [A |-> "#10b981", B |-> "#3b82f6", C |-> "#8b5cf6", D |-> "#f59e0b"]

\* A colour scale whose first breakpoint leaves 95 to the second colour.
getColorAbove95(c) ==
    IF c > 95 THEN "#10b981"
    ELSE IF c >= 85 THEN "#06b6d4"
    ELSE IF c >= 75 THEN "#f59e0b"
    ELSE "#ef4444"

getColor(c) ==
    IF c >= 95 THEN "#10b981"
    ELSE IF c >= 85 THEN "#06b6d4"
    ELSE IF c >= 75 THEN "#f59e0b"
    ELSE "#ef4444"

\* The legend counts of the stats memo.
stats(ms) ==
    [total |-> Len(ms),
     excellent |-> Len(SelectSeq(ms, LAMBDA m : m.c >= 95)),
     good |-> Len(SelectSeq(ms, LAMBDA m : m.c >= 85 /\ m.c < 95)),
     fair |-> Len(SelectSeq(ms, LAMBDA m : m.c >= 75 /\ m.c < 85)),
     poor |-> Len(SelectSeq(ms, LAMBDA m : m.c < 75))]

DrawOp(op, id, color) == [op |-> op, id |-> id, color |-> color]

\* The body of filteredMirrors.forEach in draw, from mirror i on.  Reading
\* ZONE_COLORS[mirror.z].bg of an unknown zone throws and ends the draw.
RECURSIVE drawMirrors(_, _, _, _, _, _, _, _, _)
drawMirrors(ms, i, cs, z, off, sel, hov, srch, mode) ==
    IF i > Len(ms) THEN << >>
    ELSE LET m == ms[i]
             pos == dataToCanvas(R(m.x), R(m.y), cs, z, off)
             culled == \/ RLt(pos.x, R(-20)) \/ RLt(R(cs.width + 20), pos.x)
                       \/ RLt(pos.y, R(-20)) \/ RLt(R(cs.height + 20), pos.y)
             rest == drawMirrors(ms, i + 1, cs, z, off, sel, hov, srch, mode)
         IN  IF culled THEN rest
             ELSE IF mode # "cleanliness" /\ m.z \notin DOMAIN ZONE_COLORS
             THEN <<DrawOp("throw", m.id, NULL)>>
             ELSE LET color == IF mode = "cleanliness" THEN getColor(m.c)
                               ELSE ZONE_COLORS[m.z]
                      ring == IF m.id = srch THEN <<DrawOp("ring", m.id, "#f59e0b")>>
                              ELSE IF m.id = sel \/ m.id = hov
                              THEN <<DrawOp("ring", m.id, "#ffffff")>>
                              ELSE << >>
                  IN  <<DrawOp("point", m.id, color)>> \o ring \o rest

Threw(ops) == \E k \in 1..Len(ops) : ops[k].op = "throw"

\* Cut the operations after a throw: nothing is painted once draw has thrown.
RECURSIVE UntilThrow(_, _)
UntilThrow(ops, k) ==
    IF k > Len(ops) THEN << >>
    ELSE IF ops[k].op = "throw" THEN <<ops[k]>>
    ELSE <<ops[k]>> \o UntilThrow(ops, k + 1)

\* The painting operations of one call of draw, in order.
draw(ms, cs, z, off, sel, hov, srch, mode) ==
    LET head == <<DrawOp("background", NULL, "#0f172a"), DrawOp("grid", NULL, "#1e293b"),
                  DrawOp("tower", NULL, "#f59e0b")>>
                \o (IF RLe(Rat(1, 2), z) THEN <<DrawOp("towerLabel", NULL, "#ffffff")>>
                    ELSE << >>)
        body == UntilThrow(drawMirrors(ms, 1, cs, z, off, sel, hov, srch, mode), 1)
        tail == <<DrawOp("scaleBar", NULL, "#64748b"), DrawOp("scaleLabel", NULL, "#64748b"),
                  DrawOp("zoomLabel", NULL, "#64748b")>>
    IN  IF Threw(body) THEN head \o body ELSE head \o body \o tail

\* The mirrors drawMinimap plots: every tenth record of mirrorData, when
\* its zone is selected.
RECURSIVE drawMinimapPoints(_, _, _)
drawMinimapPoints(data, i, zones) ==
    IF i > Len(data) THEN << >>
    ELSE LET m == data[i]
             rest == drawMinimapPoints(data, i + 1, zones)
         IN  IF (i - 1) % 10 # 0 \/ m.z \notin zones THEN rest
             ELSE IF m.z \notin DOMAIN ZONE_COLORS THEN <<DrawOp("throw", m.id, NULL)>>
             ELSE <<DrawOp("point", m.id, ZONE_COLORS[m.z])>> \o rest

drawMinimap(data, zones) ==
    <<DrawOp("background", NULL, "#1e293b")>>
    \o UntilThrow(drawMinimapPoints(data, 1, zones), 1)
    \o (IF Threw(drawMinimapPoints(data, 1, zones)) THEN << >>
        ELSE <<DrawOp("viewport", NULL, "#f59e0b")>>)

\* What the draw effect paints in the current state.
currentDraw ==
    draw(filteredMirrors(mirrorData, selectedZones), canvasSize, zoom, offset,
         selectedMirror, hoveredMirror, searchResult, colorMode)

(***************************************************************************)
(* Toolbar and side panel: colour mode, zone filter, search, retry.        *)
(***************************************************************************)
\* Strings are sequences of characters here, so that toLowerCase, trim and
\* includes do what they do in the code.
Chars(id) ==
    CASE id = "A-1" -> <<"A", "-", "1">>
      [] id = "B-1" -> <<"B", "-", "1">>
      [] id = "C-1" -> <<"C", "-", "1">>
      [] id = "D-1" -> <<"D", "-", "1">>
      [] id = "E-1" -> <<"E", "-", "1">>

toLowerCase(str) ==
    [k \in 1..Len(str) |->
        CASE str[k] = "A" -> "a" [] str[k] = "B" -> "b" [] str[k] = "C" -> "c"
          [] str[k] = "D" -> "d" [] str[k] = "E" -> "e" [] str[k] = "Z" -> "z"
          [] OTHER -> str[k]]

\* searchQuery.trim() is the empty string
trimIsEmpty(str) == \A k \in 1..Len(str) : str[k] = " "

includes(str, part) ==
    \E k \in 0..(Len(str) - Len(part)) :
        \A j \in 1..Len(part) : str[k + j] = part[j]

\* What the user has typed in the search box when Enter is pressed.
Queries == { <<"-", "1">>, <<"Z">>, <<" ">> }

\* mirrorData.find(...): the index of the first match, 0 when there is none
RECURSIVE findIndex(_, _, _)
findIndex(data, i, query) ==
    IF i > Len(data) THEN 0
    ELSE IF includes(toLowerCase(Chars(data[i].id)), toLowerCase(query)) THEN i
    ELSE findIndex(data, i + 1, query)

searchOffset(m, cs, z) ==
    [x |-> RMul(RMul(R(-m.x), viewScale(cs)), z),
     y |-> RMul(RMul(R(m.y), viewScale(cs)), z)]

\* The JavaScript context, or the React tree, is torn down: nothing of the
\* page is left, and a pending promise has nothing to call.
pageGone ==
    /\ mounted' = FALSE
    /\ fetchInFlight' = FALSE
    /\ mirrorData' = << >>
    /\ mirrorDataLoading' = TRUE
    /\ mirrorDataError' = NULL
    /\ fetchLog' = << >>
    /\ toasts' = << >>
    /\ zoom' = ONE
    /\ offset' = Origin
    /\ isDragging' = FALSE
    /\ dragStart' = Origin
    /\ selectedMirror' = NULL
    /\ hoveredMirror' = NULL
    /\ selectedZones' = ZONES
    /\ canvasSize' = InitialCanvasSize
    /\ colorMode' = "cleanliness"
    /\ searchResult' = NULL
    /\ canvasLabels' = NoLabels
    /\ minimapMirrorData' = << >>
    /\ pressed' = {}
    /\ clickPending' = FALSE
    /\ grab' = NoGrab
    /\ UNCHANGED <<pointer, otherPages>>

\* Enter in the search box.  The details panel renders
\* ZONE_COLORS[selectedMirror.z].name: for a mirror of an unknown zone the
\* render throws, and React, having no error boundary, unmounts the tree.
handleSearch(query) ==
    /\ ToolbarUsable
    /\ LET i == findIndex(mirrorData, 1, query)
       IN  IF trimIsEmpty(query) \/ i = 0
           THEN /\ searchResult' = NULL
                /\ UNCHANGED <<lifecycleVars, zoom, offset, isDragging, dragStart,
                               selectedMirror, hoveredMirror, selectedZones,
                               canvasSize, colorMode, pointer, pressed,
                               clickPending, grab>>
                /\ redraw(FALSE)
                /\ redrawMinimap(FALSE)
                /\ UNCHANGED otherPages
           ELSE IF mirrorData[i].z \notin DOMAIN ZONE_COLORS
           THEN pageGone
           ELSE /\ searchResult' = mirrorData[i].id
                /\ selectedMirror' = mirrorData[i].id
                /\ offset' = searchOffset(mirrorData[i], canvasSize, zoom)
                /\ selectedZones' = selectedZones \cup {mirrorData[i].z}
                /\ UNCHANGED <<lifecycleVars, zoom, isDragging, dragStart,
                               hoveredMirror, canvasSize, colorMode, pointer,
                               pressed, clickPending, grab>>
                /\ redraw(FALSE)
                /\ redrawMinimap(TRUE)
                /\ UNCHANGED otherPages

toggleZone(zone) ==
    /\ ToolbarUsable
    /\ selectedZones' = IF zone \in selectedZones THEN selectedZones \ {zone}
                        ELSE selectedZones \cup {zone}
    /\ UNCHANGED <<lifecycleVars, zoom, offset, isDragging, dragStart,
                   selectedMirror, hoveredMirror, canvasSize, colorMode,
                   searchResult, pointer, pressed, clickPending, grab>>
    /\ redraw(FALSE)
    /\ redrawMinimap(FALSE)
    /\ UNCHANGED otherPages

setColorMode(mode) ==
    /\ ToolbarUsable
    /\ colorMode' = mode
    /\ UNCHANGED <<lifecycleVars, zoom, offset, isDragging, dragStart,
                   selectedMirror, hoveredMirror, selectedZones, canvasSize,
                   searchResult, pointer, pressed, clickPending, grab>>
    /\ redraw(FALSE)
    /\ redrawMinimap(FALSE)
    /\ UNCHANGED otherPages

\* The error view, with its retry button.
ErrorShown == mounted /\ ~mirrorDataLoading /\ mirrorDataError # NULL

\* The retry button: window.location.reload().  The application starts
\* again at the login page, and MirrorFieldPage is not mounted.
retryReload ==
    /\ ErrorShown
    /\ pageGone

LoadData ==
    \/ \E response \in DataResponses : loadMirrorDataResolved(response)
    \/ loadMirrorDataRejected

NextData ==
    \/ LoadData
    \/ Unmount
    \/ retryReload
    \/ \E query \in Queries : handleSearch(query)
    \/ \E zone \in ZONES : toggleZone(zone)
    \/ \E mode \in ColorModes : setColorMode(mode)
    \/ handleMouseDown(0)
    \/ \E p \in Cursors : handleMouseMove(p)
    \/ handleMouseUp(0)
    \/ handleClick

SpecData == Init /\ [][NextData]_vars

\* The distance in world units between mirror m and the world point under
\* the canvas position c.
worldDistAt(m, c) ==
    LET dataPos == canvasToData(R(c.x), R(c.y), canvasSize, zoom, offset)
    IN  [dx |-> RSub(R(m.x), dataPos.x), dy |-> RSub(R(m.y), dataPos.y)]

SameDist(d1, d2) == ~distLt(d1, d2) /\ ~distLt(d2, d1)

\* Mirrors i and j of ms tie at c: equidistant, within the threshold, and
\* no mirror is nearer.
TieAt(ms, i, j, c) ==
    /\ i < j
    /\ SameDist(worldDistAt(ms[i], c), worldDistAt(ms[j], c))
    /\ distLt(worldDistAt(ms[i], c), [dx |-> RDiv(R(15), zoom), dy |-> ZERO])
    /\ \A k \in 1..Len(ms) : ~distLt(worldDistAt(ms[k], c), worldDistAt(ms[i], c))

\* C13: when mirrors within the threshold tie for the nearest, the hit-test
\* returns the one that comes first in filteredMirrors.
C13_TieBreakFirst ==
    MapShown =>
      LET ms == filteredMirrors(mirrorData, selectedZones)
      IN  \A c \in Cursors : \A i \in 1..Len(ms) : \A j \in 1..Len(ms) :
            (/\ TieAt(ms, i, j, c)
             /\ \A k \in 1..(i - 1) : ~SameDist(worldDistAt(ms[k], c), worldDistAt(ms[i], c)))
            => findNearestMirror(c.x, c.y, ms, canvasSize, zoom, offset) = ms[i].id

\* B-1 and D-1 tie under the pointer, and the hover hit-test has taken B-1.
C13_Witness ==
    /\ MapShown /\ hoveredMirror = "B-1"
    /\ \E i, j \in 1..Len(filteredMirrors(mirrorData, selectedZones)) :
         /\ filteredMirrors(mirrorData, selectedZones)[i].id = "B-1"
         /\ filteredMirrors(mirrorData, selectedZones)[j].id = "D-1"
         /\ TieAt(filteredMirrors(mirrorData, selectedZones), i, j, pointer)

\* C14: while the page is mounted it has issued exactly one fetch, and once
\* that fetch has failed (rejected, or resolved without success or without
\* mirrors) the page shows the error view with its retry button, is no
\* longer loading and has no fetch in flight.
C14_FailureShownNoRefetch ==
    mounted =>
      /\ Len(fetchLog) = 1
      /\ fetchInFlight <=> fetchLog = <<"pending">>
      /\ fetchLog = <<"failed">> =>
           /\ ErrorShown
           /\ mirrorDataError # NULL /\ ~mirrorDataLoading
           /\ ~MapShown

C14_Witness ==
    /\ mounted /\ fetchLog = <<"failed">> /\ ErrorShown
    /\ mirrorDataError = "Failed to load mirror data"
    /\ toasts = <<"error">>

\* A record of the data set has the fields the page reads, with a zone of
\* ZONE_COLORS.  (All records here carry both coordinates.)
WellFormed(m) == m.z \in ZONES /\ m.x \in Int /\ m.y \in Int

\* C15: a malformed record is filtered out when the data is loaded, so that
\* mirrorData holds well-formed records only.
C15_MalformedFilteredAtLoad ==
    \A i \in 1..Len(mirrorData) : WellFormed(mirrorData[i])

\* The operations of a draw that paints no mirror at zoom z.
blankField(z) ==
    <<DrawOp("background", NULL, "#0f172a"), DrawOp("grid", NULL, "#1e293b"),
      DrawOp("tower", NULL, "#f59e0b")>>
    \o (IF RLe(Rat(1, 2), z) THEN <<DrawOp("towerLabel", NULL, "#ffffff")>> ELSE << >>)
    \o <<DrawOp("scaleBar", NULL, "#64748b"), DrawOp("scaleLabel", NULL, "#64748b"),
         DrawOp("zoomLabel", NULL, "#64748b")>>

\* C16: after a successful load, when no mirror is visible (none loaded, or
\* every zone deselected) the page shows the map and not the error view,
\* draw and drawMinimap run to their end and paint the blank field, and the
\* hit-test returns null everywhere.
C16_EmptySetDraws ==
    (/\ mounted /\ fetchLog = <<"loaded">>
     /\ filteredMirrors(mirrorData, selectedZones) = << >>)
    => /\ MapShown /\ ~ErrorShown
       /\ currentDraw = blankField(zoom)
       /\ drawMinimap(minimapMirrorData, selectedZones)
            = <<DrawOp("background", NULL, "#1e293b"), DrawOp("viewport", NULL, "#f59e0b")>>
       /\ canvasLabels = drawLabels(zoom)
       /\ \A c \in Cursors :
            findNearestMirror(c.x, c.y, filteredMirrors(mirrorData, selectedZones),
                              canvasSize, zoom, offset) = NULL

\* Zero mirrors were loaded, the map is drawn and the pointer has moved over it.
C16_Witness ==
    /\ MapShown /\ fetchLog = <<"loaded">> /\ mirrorData = << >>
    /\ pointer # [x |-> 400, y |-> 300]
    /\ canvasLabels = drawLabels(zoom)

\* The layer of a painting operation, back to front.
Layer(op) ==
    CASE op = "background" -> 1
      [] op = "grid" -> 2
      [] op \in {"tower", "towerLabel"} -> 3
      [] op = "point" -> 4
      [] op = "ring" -> 5
      [] op \in {"scaleBar", "scaleLabel", "zoomLabel"} -> 6
      [] OTHER -> 7

\* C17: every draw paints background, grid, tower marker, all data points,
\* all highlight rings, then scale bar and zoom label, in that order: no
\* operation of an earlier layer follows one of a later layer, and so no
\* data point is painted after a highlight ring.
C17_DrawOrder ==
    MapShown =>
      \A i \in 1..Len(currentDraw) : \A j \in 1..Len(currentDraw) :
          i < j => Layer(currentDraw[i].op) <= Layer(currentDraw[j].op)

\* The cleanliness bucket of a value, by the breakpoints 95, 85 and 75.
Bucket(c) ==
    CASE c \in 95..100 -> "excellent"
      [] c \in 85..94 -> "good"
      [] c \in 75..84 -> "fair"
      [] c \in 0..74 -> "poor"

BucketColor == [excellent |-> "#10b981", good |-> "#06b6d4",
                fair |-> "#f59e0b", poor |-> "#ef4444"]

ZoneColor == [A |-> "#10b981", B |-> "#3b82f6", C |-> "#8b5cf6", D |-> "#f59e0b"]

\* C19: in cleanliness mode a value 0..100 is painted in the colour of its
\* bucket (>= 95, 85..94, 75..84, < 75), four distinct colours; in zone
\* mode a mirror is painted in the fixed colour of its zone; and the legend
\* counts one bucket per value, by the same breakpoints, so that the four
\* counts add up to the number of visible mirrors.  The scale itself does
\* not depend on the state: it is examined over all values while the data
\* is loading, and on the painted mirrors once the map is shown.
C19_ColorPolicy ==
    /\ mirrorDataLoading => \A c \in 0..100 :
         /\ getColor(c) = BucketColor[Bucket(c)]
         /\ LET s == stats(<<[c |-> c]>>)
            IN  /\ s.excellent = (IF Bucket(c) = "excellent" THEN 1 ELSE 0)
                /\ s.good = (IF Bucket(c) = "good" THEN 1 ELSE 0)
                /\ s.fair = (IF Bucket(c) = "fair" THEN 1 ELSE 0)
                /\ s.poor = (IF Bucket(c) = "poor" THEN 1 ELSE 0)
    /\ Cardinality({BucketColor[b] : b \in DOMAIN BucketColor}) = 4
    /\ MapShown =>
         /\ LET s == stats(filteredMirrors(mirrorData, selectedZones))
            IN  /\ s.excellent + s.good + s.fair + s.poor
                     = Len(filteredMirrors(mirrorData, selectedZones))
                /\ s.total = Len(filteredMirrors(mirrorData, selectedZones))
         /\ LET ms == filteredMirrors(mirrorData, selectedZones)
                ops == currentDraw
            IN  \A k \in 1..Len(ops) :
                  ops[k].op = "point" =>
                    \E i \in 1..Len(ms) :
                      /\ ms[i].id = ops[k].id
                      /\ ops[k].color =
                           IF colorMode = "cleanliness"
                           THEN BucketColor[Bucket(ms[i].c)]
                           ELSE ZoneColor[ms[i].z]

\* Zone colours are on the canvas, for a filtered data set.
C19_Witness ==
    /\ MapShown /\ colorMode = "zone" /\ mirrorData = TieMirrors
    /\ selectedZones = {"B", "C", "D"}
    /\ \E k \in 1..Len(currentDraw) :
         currentDraw[k].op = "point" /\ currentDraw[k].color = "#8b5cf6"

(***************************************************************************)
(* Grid of the main canvas.                                                *)
(***************************************************************************)
\* Math.trunc of a quotient, as the % operator of numbers takes it.
Trunc(a) == IF a.n >= 0 THEN a.n \div a.d ELSE -((-a.n) \div a.d)

\* a % b on numbers: the remainder has the sign of the dividend.
jsRem(a, b) == RSub(a, RMul(b, R(Trunc(RDiv(a, b)))))

gridSize(z) == RMul(R(100), z)

gridOffset(o, size) == jsRem(RAdd(jsRem(o, size), size), size)

\* The vertical and horizontal lines draw strokes: the first of each and
\* their spacing; the loops stop at the canvas edge.
drawGrid(cs, z, off) ==
    [gridSize |-> gridSize(z),
     gridOffsetX |-> gridOffset(off.x, gridSize(z)),
     gridOffsetY |-> gridOffset(off.y, gridSize(z)),
     width |-> cs.width, height |-> cs.height]

\* A line of the loop `for (v = first; v < limit; v += size)` is stroked at p.
Stroked(p, first, size, limit) ==
    /\ RLe(first, p) /\ RLt(p, R(limit))
    /\ RDiv(RSub(p, first), size).d = 1

\* World points followed across a step: the tower, at the canvas centre of
\* the initial view, and the point one grid line to its right.
GridProbes == { [x |-> ZERO, y |-> ZERO], [x |-> Rat(2980, 9), y |-> ZERO] }

\* A vertical and a horizontal grid line cross at the screen position of w.
GridThrough(w, cs, z, off) ==
    LET g == drawGrid(cs, z, off)
        p == dataToCanvas(w.x, w.y, cs, z, off)
    IN  /\ Stroked(p.x, g.gridOffsetX, g.gridSize, g.width)
        /\ Stroked(p.y, g.gridOffsetY, g.gridSize, g.height)

OnCanvas(w, cs, z, off) ==
    LET p == dataToCanvas(w.x, w.y, cs, z, off)
    IN  /\ RLe(ZERO, p.x) /\ RLt(p.x, R(cs.width))
        /\ RLe(ZERO, p.y) /\ RLt(p.y, R(cs.height))

GridOffsetInRange(cs, z, off) ==
    LET g == drawGrid(cs, z, off)
    IN  /\ RLe(ZERO, g.gridOffsetX) /\ RLt(g.gridOffsetX, g.gridSize)
        /\ RLe(ZERO, g.gridOffsetY) /\ RLt(g.gridOffsetY, g.gridSize)

PanOrZoom == (zoom' # zoom \/ offset' # offset) /\ canvasSize' = canvasSize

\* C20: the first grid line lies in [0, gridSize) whatever the sign of the
\* offset, and a pan or a zoom keeps a grid crossing on every world point
\* that had one, as long as the point stays on the canvas.
C20_GridFollowsWorld ==
    [][ (MapShown /\ MapShown' /\ PanOrZoom) =>
          /\ GridOffsetInRange(canvasSize', zoom', offset')
          /\ \A w \in GridProbes :
               ( /\ GridThrough(w, canvasSize, zoom, offset)
                 /\ OnCanvas(w, canvasSize', zoom', offset') )
               => GridThrough(w, canvasSize', zoom', offset') ]_vars
\* The scale of the claim: the smaller of the two fits, times 0.9.
fitScale(cs) ==
    LET fx == Rat(cs.width, BOUNDS.xMax - BOUNDS.xMin)
        fy == Rat(cs.height, BOUNDS.yMax - BOUNDS.yMin)
    IN  IF RLe(fx, fy) THEN RMul(fx, Rat(9, 10)) ELSE RMul(fy, Rat(9, 10))

\* World points in increasing order of both x and y: a corner of BOUNDS,
\* the origin, a mirror and the opposite corner.
ScaleProbes ==
    << [x |-> BOUNDS.xMin, y |-> BOUNDS.yMin], [x |-> 0, y |-> 0],
       [x |-> Mirrors[1].x, y |-> Mirrors[1].y],
       [x |-> BOUNDS.xMax, y |-> BOUNDS.yMax] >>

\* From the image p of world point a to the image q of world point b, the
\* screen moves right and up by the world difference times k.
ScaledStep(a, b, p, q, k) ==
    /\ a.x < b.x /\ a.y < b.y
    /\ RSub(q.x, p.x) = RMul(R(b.x - a.x), k)
    /\ RSub(p.y, q.y) = RMul(R(b.y - a.y), k)
    /\ RLt(p.x, q.x) /\ RLt(q.y, p.y)

\* C21: dataToCanvas is one uniform scale s * zoom on both axes, with
\* s = min(width / (xMax - xMin), height / (yMax - yMin)) * 0.9: the world
\* origin maps to (width/2 + offset.x, height/2 + offset.y), screen x grows
\* strictly with world x and screen y falls strictly as world y grows.
C21_UniformScaleFlippedY ==
    LET at(p) == dataToCanvas(R(p.x), R(p.y), canvasSize, zoom, offset)
        p1 == at(ScaleProbes[1])
        p2 == at(ScaleProbes[2])
        p3 == at(ScaleProbes[3])
        p4 == at(ScaleProbes[4])
        k == RMul(fitScale(canvasSize), zoom)
    IN  /\ RLt(ZERO, zoom)
        /\ p2 = [x |-> RAdd(Rat(canvasSize.width, 2), offset.x),
                 y |-> RAdd(Rat(canvasSize.height, 2), offset.y)]
        /\ ScaledStep(ScaleProbes[1], ScaleProbes[2], p1, p2, k)
        /\ ScaledStep(ScaleProbes[2], ScaleProbes[3], p2, p3, k)
        /\ ScaledStep(ScaleProbes[3], ScaleProbes[4], p3, p4, k)

\* A zoomed-out, panned view on the resized canvas.
C21_Witness ==
    /\ MapShown /\ RLt(zoom, ONE) /\ RLt(offset.x, ZERO) /\ RLt(ZERO, offset.y)
    /\ canvasSize.width = 607

\* The world point under the pointer at the pointerDown of the current drag.
grabbedPoint ==
    canvasToData(R(grab.pos.x), R(grab.pos.y), canvasSize, grab.zoom, grab.offset)

\* C22: during a drag every pointerMove leaves the world point grabbed at
\* pointerDown under the pointer, wheel events between the pointerDown and
\* the pointerMove included.
C22_GrabbedPointFollowsPointer ==
    [][ (MapShown /\ isDragging /\ 0 \in pressed /\ pointer' # pointer) =>
          dataToCanvas(grabbedPoint.x, grabbedPoint.y, canvasSize', zoom', offset')
            = [x |-> R(pointer'.x), y |-> R(pointer'.y)] ]_vars

\* The mirror with this id is among those the canvas draws.
Drawn(id) ==
    LET ms == filteredMirrors(mirrorData, selectedZones)
    IN  \E i \in 1..Len(ms) : ms[i].id = id

\* C23: a selected or hovered mirror is always one of the mirrors drawn,
\* that is, its zone is one of the selected zones.
C23_SelectionIsDrawn ==
    MapShown =>
      /\ selectedMirror # NULL => Drawn(selectedMirror)
      /\ hoveredMirror # NULL => Drawn(hoveredMirror)

\* C24: the render that follows a successful load paints on the minimap the
\* points of the loaded mirrors (of the selected zones), before any change
\* of zoom, offset, zone selection or canvas size.
C24_FirstMinimapShowsData ==
    [][ (mounted /\ mirrorDataLoading /\ MapShown') =>
          drawMinimap(minimapMirrorData', selectedZones')
            = drawMinimap(mirrorData', selectedZones') ]_vars

(***************************************************************************)
(* Wheel events that share one render.                                     *)
(***************************************************************************)
\* Two wheel events dispatched before React renders again: wheel updates
\* have continuous priority and are rendered in a later task.  Both calls
\* of handleWheel run in the closure of the same render, so both read the
\* same zoom and canvasSize; the two setOffset updaters are applied in
\* order to the pending offset, and the second setZoom replaces the first.
handleWheelBatch(deltaY1, deltaY2, maxNum, maxDen) ==
    /\ MapShown /\ ~clickPending
    /\ zoom.n <= maxNum /\ zoom.d <= maxDen
    /\ LET newZoom1 == wheelZoom(zoom, deltaY1)
           newZoom2 == wheelZoom(zoom, deltaY2)
           offset1 == wheelOffset(offset, pointer, canvasSize, zoom, newZoom1)
           offset2 == wheelOffset(offset1, pointer, canvasSize, zoom, newZoom2)
       IN  /\ OffsetExplored(offset2)
           /\ offset' = offset2
           /\ zoom' = newZoom2
    /\ grab' = IF 0 \in pressed THEN [grab EXCEPT !.wheeled = TRUE] ELSE grab
    /\ UNCHANGED <<lifecycleVars, isDragging, dragStart, selectedMirror,
                   hoveredMirror, selectedZones, canvasSize, pointer, pressed,
                   clickPending>>
    /\ UNCHANGED panelVars
    /\ redraw(FALSE)
    /\ redrawMinimap(TRUE)
    /\ UNCHANGED otherPages

\* The zoom operations, with wheel events handled two to a render.
NextWheelBatch ==
    \/ Load
    \/ \E deltaY1, deltaY2 \in WheelDeltas :
         handleWheelBatch(deltaY1, deltaY2, MaxPointerTerm, MaxPointerTerm)
    \/ \E p \in Cursors : handleMouseMove(p)
    \/ zoomOutButton(MaxButtonTerm, MaxButtonTerm)
    \/ zoomInButton(MaxButtonTerm, MaxButtonTerm)
    \/ resetView

SpecWheelBatch == Init /\ [][NextWheelBatch]_vars

\* The view after two wheel events with a render between them.
wheelTwice(deltaY1, deltaY2) ==
    LET zoom1 == wheelZoom(zoom, deltaY1)
        zoom2 == wheelZoom(zoom1, deltaY2)
        offset1 == wheelOffset(offset, pointer, canvasSize, zoom, zoom1)
    IN  [zoom |-> zoom2,
         offset |-> wheelOffset(offset1, pointer, canvasSize, zoom1, zoom2)]

\* C25: two wheel events handled in one render leave the zoom and the
\* offset that the same two events leave when a render separates them.
C25_BatchedWheelEqualsSequential ==
    [][ \A deltaY1, deltaY2 \in WheelDeltas :
          handleWheelBatch(deltaY1, deltaY2, MaxPointerTerm, MaxPointerTerm) =>
            /\ zoom' = wheelTwice(deltaY1, deltaY2).zoom
            /\ offset' = wheelTwice(deltaY1, deltaY2).offset ]_vars

\* C26: a search that matches a mirror id (first match in data order,
\* letter case ignored) makes that mirror the search result and the
\* selection, has its zone selected and puts it on the exact centre of the
\* canvas at the zoom in force; a blank query, or one that matches nothing,
\* clears the search result and leaves zoom, offset and selection alone.
C26_SearchSelectsAndCentres ==
    [][ \A query \in Queries :
          handleSearch(query) =>
            LET i == findIndex(mirrorData, 1, query)
            IN  IF trimIsEmpty(query) \/ i = 0
                THEN /\ searchResult' = NULL
                     /\ UNCHANGED <<zoom, offset, selectedMirror>>
                ELSE /\ searchResult' = mirrorData[i].id
                     /\ selectedMirror' = mirrorData[i].id
                     /\ mirrorData[i].z \in selectedZones'
                     /\ zoom' = zoom
                     /\ dataToCanvas(R(mirrorData[i].x), R(mirrorData[i].y),
                                     canvasSize', zoom', offset')
                          = [x |-> Rat(canvasSize'.width, 2),
                             y |-> Rat(canvasSize'.height, 2)] ]_vars

\* C27: the metres printed on the 100-pixel scale bar are the rounded world
\* distance that 100 pixels span under dataToCanvas, 100 / (s * zoom), at
\* every zoom and canvas size.
C27_ScaleBarIsWorldDistance ==
    MapShown =>
      canvasLabels.scale
        = Round(RDiv(R(100), RMul(viewScale(canvasSize), zoom)))

(***************************************************************************)
(* Status labels of a cleanliness value outside the map.                   *)
(***************************************************************************)
\* The status label of the mirror preview modal; the three labels are given
\* in translation.
previewStatus(cleanliness) ==
    IF cleanliness >= 85 THEN "status good"
    ELSE IF cleanliness >= 75 THEN "attention advised"
    ELSE "needs cleaning"

\* The status column of the Excel export.
getStatusLabel(cleanliness) ==
    IF cleanliness >= 90 THEN "Good"
    ELSE IF cleanliness >= 80 THEN "Warning"
    ELSE "Critical"

\* The class a colour or a label stands for: the two upper map colours are
\* both good.
StatusClass ==
    [k \in {"#10b981", "#06b6d4", "status good", "Good",
            "#f59e0b", "attention advised", "Warning",
            "#ef4444", "needs cleaning", "Critical"} |->
        IF k \in {"#10b981", "#06b6d4", "status good", "Good"} THEN "good"
        ELSE IF k \in {"#f59e0b", "attention advised", "Warning"} THEN "attention"
        ELSE "poor"]

\* C28: the cleanliness value of a mirror gets the same class, good,
\* attention or poor, from the map colour, the preview modal and the Excel
\* export.
C28_OneClassification ==
    \A i \in 1..Len(mirrorData) :
        LET c == mirrorData[i].c
        IN  /\ StatusClass[getColor(c)] = StatusClass[previewStatus(c)]
            /\ StatusClass[previewStatus(c)] = StatusClass[getStatusLabel(c)]

(***************************************************************************)
(* useBackendConnection, the hook of ConnectionStatus.                     *)
(***************************************************************************)
\* What apiService.testConnection() resolves with; it catches its own
\* errors, so the catch branch of checkConnection is never entered.
ConnectionResults ==
    { [connected |-> TRUE, message |-> "Backend connected successfully"],
      [connected |-> FALSE, message |-> "Failed to connect to backend"] }

\* Every object of MirrorFieldPage stays as it is.
pageUntouched == UNCHANGED <<lifecycleVars, viewVars, panelVars, canvasLabels,
                             minimapMirrorData>>

\* checkConnection up to its await: called by the mount effect, by the
\* poll interval and by a click on the indicator.
checkConnection ==
    /\ Len(checkLog) < MaxChecks
    /\ checking' = TRUE
    /\ checksInFlight' = checksInFlight \cup {Len(checkLog) + 1}
    /\ checkLog' = Append(checkLog, "pending")
    /\ UNCHANGED <<connected, connectionError, historyVars>>
    /\ pageUntouched

\* checkConnection from its await on: the try block and finally.
testConnectionResolved(id, result) ==
    /\ id \in checksInFlight
    /\ connected' = result.connected
    /\ connectionError' = IF result.connected THEN NULL ELSE result.message
    /\ checking' = FALSE
    /\ checksInFlight' = checksInFlight \ {id}
    /\ checkLog' = [checkLog EXCEPT
                      ![id] = IF result.connected THEN "connected" ELSE "offline"]
    /\ UNCHANGED historyVars
    /\ pageUntouched

NextConnection ==
    \/ checkConnection
    \/ \E id \in 1..MaxChecks, result \in ConnectionResults :
         testConnectionResolved(id, result)

SpecConnection == Init /\ [][NextConnection]_vars

\* C29: checking is true as long as a connection check is in flight, and
\* once none is, connected is the answer to the check started last.
C29_CheckingCoversOverlap ==
    /\ checksInFlight # {} => checking
    /\ checksInFlight = {} =>
         connected = (checkLog[Len(checkLog)] = "connected")

(***************************************************************************)
(* DetectionHistoryPage.                                                   *)
(***************************************************************************)
\* What the user may have typed in the search field.
SearchTerms == {"", "cam"}

\* The results the backend holds for a search: result.results of /history.
HistoryResults ==
    [term \in SearchTerms |->
        IF term = "" THEN <<"cam_01.jpg", "yard_02.jpg">> ELSE <<"cam_01.jpg">>]

\* AppContent renders DetectionHistoryPage in place of MirrorFieldPage: the
\* page has its initial state and the loadHistory of its mount effect awaits
\* fetchHistory().
InitHistory ==
    /\ mounted = FALSE
    /\ fetchInFlight = FALSE
    /\ mirrorData = << >>
    /\ mirrorDataLoading = TRUE
    /\ mirrorDataError = NULL
    /\ fetchLog = << >>
    /\ toasts = << >>
    /\ zoom = ONE
    /\ offset = Origin
    /\ isDragging = FALSE
    /\ dragStart = Origin
    /\ selectedMirror = NULL
    /\ hoveredMirror = NULL
    /\ selectedZones = ZONES
    /\ canvasSize = InitialCanvasSize
    /\ colorMode = "cleanliness"
    /\ searchResult = NULL
    /\ canvasLabels = NoLabels
    /\ minimapMirrorData = << >>
    /\ pointer = [x |-> 400, y |-> 300]
    /\ pressed = {}
    /\ clickPending = FALSE
    /\ grab = NoGrab
    /\ ConnectionMounted
    /\ records = << >>
    /\ loading = TRUE
    /\ historyError = NULL
    /\ searchTerm = ""
    /\ requestsInFlight = {1}
    /\ requestLog = <<[search |-> "", outcome |-> "pending"]>>

\* onChange of the search field
setSearchTerm(term) ==
    /\ term # searchTerm
    /\ searchTerm' = term
    /\ UNCHANGED <<records, loading, historyError, requestsInFlight, requestLog,
                   connectionVars>>
    /\ pageUntouched

\* loadHistory up to its await; the callback of the current render reads the
\* current searchTerm.
loadHistory ==
    /\ Len(requestLog) < MaxRequests
    /\ loading' = TRUE
    /\ historyError' = NULL
    /\ requestsInFlight' = requestsInFlight \cup {Len(requestLog) + 1}
    /\ requestLog' = Append(requestLog, [search |-> searchTerm, outcome |-> "pending"])
    /\ UNCHANGED <<records, searchTerm, connectionVars>>
    /\ pageUntouched

\* onSubmit of the search form: the submit button is never disabled.
historyHandleSearch == loadHistory

\* The refresh button, disabled while loading, and the retry button of the
\* error view.
refreshHistory == ~loading /\ loadHistory

\* loadHistory from its await on, the request having succeeded.
fetchHistoryResolved(id) ==
    /\ id \in requestsInFlight
    /\ records' = HistoryResults[requestLog[id].search]
    /\ loading' = FALSE
    /\ requestsInFlight' = requestsInFlight \ {id}
    /\ requestLog' = [requestLog EXCEPT ![id].outcome = "loaded"]
    /\ UNCHANGED <<historyError, searchTerm, connectionVars>>
    /\ pageUntouched

\* loadHistory from its await on, the request having failed.
fetchHistoryRejected(id) ==
    /\ id \in requestsInFlight
    /\ historyError' = "Network error"
    /\ toasts' = Append(toasts, "error")
    /\ loading' = FALSE
    /\ requestsInFlight' = requestsInFlight \ {id}
    /\ requestLog' = [requestLog EXCEPT ![id].outcome = "failed"]
    /\ UNCHANGED <<records, searchTerm, connectionVars>>
    /\ UNCHANGED <<mounted, fetchInFlight, mirrorData, mirrorDataLoading,
                   mirrorDataError, fetchLog, viewVars, panelVars, canvasLabels,
                   minimapMirrorData>>

NextHistory ==
    \/ \E term \in SearchTerms : setSearchTerm(term)
    \/ historyHandleSearch
    \/ refreshHistory
    \/ \E id \in 1..MaxRequests : fetchHistoryResolved(id)
    \/ \E id \in 1..MaxRequests : fetchHistoryRejected(id)

SpecHistory == InitHistory /\ [][NextHistory]_vars

\* C30: loading is false only when no loadHistory request is in flight, and
\* once none is, the records shown are the results of the request issued
\* last, whatever the order of the responses.
C30_LatestRequestWins ==
    /\ requestsInFlight # {} => loading
    /\ (/\ requestsInFlight = {}
        /\ requestLog # << >>
        /\ requestLog[Len(requestLog)].outcome = "loaded")
       => records = HistoryResults[requestLog[Len(requestLog)].search]

====
